---- MODULE Spec2Model ----
(***************************************************************************)
(* A model of bin/translate_taxids.py: the column resolver                 *)
(* (build_row_accessor), the label selector (get_best_tax_label), the      *)
(* identifier-column detection (find_tax_id_col) and main's map-building   *)
(* and header-rewrite loops.                                               *)
(*                                                                         *)
(* A Python str is a sequence of one-character strings, so that strip,     *)
(* lower, isdigit and the substring test compute on characters.  Any other *)
(* Python value is a record tagged by kind: a str object, the missing      *)
(* value NaN, None, or a pandas Series holding several cells.              *)
(***************************************************************************)
EXTENDS Integers, Sequences, FiniteSets, TLC

\* ------------------------------------------------------------ bounds

\* columns of a row handed to the label selector (specification SpecLabel)
MaxRowCols == 2
\* data rows of the taxonomy table (specification Spec)
MaxTaxRows == 2
\* header tokens of the sample table (specification Spec)
MaxHeaders == 2

\* ------------------------------------------------------------ Python values

Str(s) == [kind |-> "str", s |-> s]
NaN == [kind |-> "nan"]
None == [kind |-> "none"]
Series(cells) == [kind |-> "series", cells |-> cells]

\* str(v): a str is itself, the float NaN prints as "nan"
pystr(v) == IF v.kind = "nan" THEN <<"n","a","n">> ELSE v.s

\* a test that takes every scalar for present
notna_always(v) == TRUE

\* pd.notna(v) on a scalar
notna(v) == v.kind # "nan"

\* ------------------------------------------------------------ str methods

WHITESPACE == {" "}

DIGITS == {"0", "1", "2", "3", "4", "5", "6", "7", "8", "9"}

UPPER_TO_LOWER ==
    [c \in {"A", "B", "C", "D", "E", "F", "G", "H", "I", "J", "K", "L", "M",
            "N", "O", "P", "Q", "R", "S", "T", "U", "V", "W", "X", "Y", "Z"} |->
        CASE c = "A" -> "a" [] c = "B" -> "b" [] c = "C" -> "c" [] c = "D" -> "d"
          [] c = "E" -> "e" [] c = "F" -> "f" [] c = "G" -> "g" [] c = "H" -> "h"
          [] c = "I" -> "i" [] c = "J" -> "j" [] c = "K" -> "k" [] c = "L" -> "l"
          [] c = "M" -> "m" [] c = "N" -> "n" [] c = "O" -> "o" [] c = "P" -> "p"
          [] c = "Q" -> "q" [] c = "R" -> "r" [] c = "S" -> "s" [] c = "T" -> "t"
          [] c = "U" -> "u" [] c = "V" -> "v" [] c = "W" -> "w" [] c = "X" -> "x"
          [] c = "Y" -> "y" [] c = "Z" -> "z"]

RECURSIVE lstrip(_)
lstrip(s) ==
    IF s # <<>> /\ Head(s) \in WHITESPACE THEN lstrip(Tail(s)) ELSE s

RECURSIVE rstrip(_)
rstrip(s) ==
    IF s # <<>> /\ s[Len(s)] \in WHITESPACE
    THEN rstrip(SubSeq(s, 1, Len(s) - 1))
    ELSE s

\* s.strip()
strip(s) == rstrip(lstrip(s))

\* s.lower()
lower(s) ==
    [i \in 1..Len(s) |->
        IF s[i] \in DOMAIN UPPER_TO_LOWER THEN UPPER_TO_LOWER[s[i]] ELSE s[i]]

\* s.isdigit(): at least one character, every character a digit
isdigit(s) == Len(s) > 0 /\ \A i \in 1..Len(s) : s[i] \in DIGITS

\* sub in s
contains(sub, s) ==
    \E i \in 0..(Len(s) - Len(sub)) : SubSeq(s, i + 1, i + Len(sub)) = sub

\* ------------------------------------------------------------ rank tables

\* RANK_PRIORITY with genus moved ahead of species
RANK_PRIORITY_genus_first ==
    << <<"s","u","b","s","p","e","c","i","e","s">>,
       <<"g","e","n","u","s">>,
       <<"s","p","e","c","i","e","s">>,
       <<"s","p","e","c","i","e","s"," ","s","u","b","g","r","o","u","p">>,
       <<"s","p","e","c","i","e","s"," ","g","r","o","u","p">>,
       <<"f","a","m","i","l","y">>,
       <<"o","r","d","e","r">>,
       <<"c","l","a","s","s">>,
       <<"p","h","y","l","u","m">>,
       <<"c","l","a","d","e">>,
       <<"s","u","p","e","r","k","i","n","g","d","o","m">>,
       <<"k","i","n","g","d","o","m">>,
       <<"d","o","m","a","i","n">> >>

RANK_PRIORITY ==
    << <<"s","u","b","s","p","e","c","i","e","s">>,
       <<"s","p","e","c","i","e","s">>,
       <<"s","p","e","c","i","e","s"," ","s","u","b","g","r","o","u","p">>,
       <<"s","p","e","c","i","e","s"," ","g","r","o","u","p">>,
       <<"g","e","n","u","s">>,
       <<"f","a","m","i","l","y">>,
       <<"o","r","d","e","r">>,
       <<"c","l","a","s","s">>,
       <<"p","h","y","l","u","m">>,
       <<"c","l","a","d","e">>,
       <<"s","u","p","e","r","k","i","n","g","d","o","m">>,
       <<"k","i","n","g","d","o","m">>,
       <<"d","o","m","a","i","n">> >>

ALIASES ==
       (<<"s","u","p","e","r","k","i","n","g","d","o","m">> :>
         << <<"s","u","p","e","r","k","i","n","g","d","o","m">>,
            <<"d","o","m","a","i","n">>,
            <<"k","i","n","g","d","o","m">>,
            <<"s","u","p","e","r","k","i","n","g","d","o","m","_","n","a","m","e">> >>)
    @@ (<<"p","h","y","l","u","m">> :>
         << <<"p","h","y","l","u","m">>,
            <<"p","h","y","l","u","m","_","n","a","m","e">> >>)
    @@ (<<"c","l","a","s","s">> :>
         << <<"c","l","a","s","s">>,
            <<"c","l","a","s","s","_","n","a","m","e">> >>)
    @@ (<<"o","r","d","e","r">> :>
         << <<"o","r","d","e","r">>,
            <<"o","r","d","e","r","_","n","a","m","e">> >>)
    @@ (<<"f","a","m","i","l","y">> :>
         << <<"f","a","m","i","l","y">>,
            <<"f","a","m","i","l","y","_","n","a","m","e">> >>)
    @@ (<<"g","e","n","u","s">> :>
         << <<"g","e","n","u","s">>,
            <<"g","e","n","u","s","_","n","a","m","e">> >>)
    @@ (<<"s","p","e","c","i","e","s">> :>
         << <<"s","p","e","c","i","e","s">>,
            <<"s","p","e","c","i","e","s","_","n","a","m","e">>,
            <<"s","c","i","e","n","t","i","f","i","c","_","n","a","m","e">>,
            <<"n","a","m","e">>,
            <<"o","r","g","a","n","i","s","m","_","n","a","m","e">> >>)
    @@ (<<"s","u","b","s","p","e","c","i","e","s">> :>
         << <<"s","u","b","s","p","e","c","i","e","s">>,
            <<"s","u","b","s","p","e","c","i","e","s","_","n","a","m","e">> >>)
    @@ (<<"s","p","e","c","i","e","s"," ","s","u","b","g","r","o","u","p">> :>
         << <<"s","p","e","c","i","e","s"," ","s","u","b","g","r","o","u","p">>,
            <<"s","p","e","c","i","e","s","_","s","u","b","g","r","o","u","p">>,
            <<"s","p","e","c","i","e","s","_","s","u","b","g","r","o","u","p","_","n","a","m","e">> >>)
    @@ (<<"s","p","e","c","i","e","s"," ","g","r","o","u","p">> :>
         << <<"s","p","e","c","i","e","s"," ","g","r","o","u","p">>,
            <<"s","p","e","c","i","e","s","_","g","r","o","u","p">>,
            <<"s","p","e","c","i","e","s","_","g","r","o","u","p","_","n","a","m","e">> >>)
    @@ (<<"c","l","a","d","e">> :>
         << <<"c","l","a","d","e">>,
            <<"c","l","a","d","e","_","n","a","m","e">> >>)
    @@ (<<"k","i","n","g","d","o","m">> :>
         << <<"k","i","n","g","d","o","m">>,
            <<"k","i","n","g","d","o","m","_","n","a","m","e">> >>)
    @@ (<<"d","o","m","a","i","n">> :>
         << <<"d","o","m","a","i","n">>,
            <<"d","o","m","a","i","n","_","n","a","m","e">>,
            <<"s","u","p","e","r","k","i","n","g","d","o","m">> >>)

UNKNOWN == <<"U","n","k","n","o","w","n">>

\* ALIASES.get(rank, [rank])
aliases_get(rank) ==
    IF rank \in DOMAIN ALIASES THEN ALIASES[rank] ELSE <<rank>>

\* ------------------------------------------------------------ column resolver

\* A row (pd.Series): index is the sequence of column labels, values the
\* cells under them, position by position.  Labels may repeat.

EmptyDict == [k \in {} |-> k]

\* {str(k).strip().lower(): k for k in row.index}: a later label replaces an
\* earlier one under the same key
RECURSIVE accessor_mapping(_, _)
accessor_mapping(index, n) ==
    IF n = 0
    THEN EmptyDict
    ELSE (lower(strip(index[n])) :> index[n]) @@ accessor_mapping(index, n - 1)

RECURSIVE cells_at(_, _, _)
cells_at(row, label, n) ==
    IF n = 0
    THEN <<>>
    ELSE IF row.index[n] = label
         THEN Append(cells_at(row, label, n - 1), row.values[n])
         ELSE cells_at(row, label, n - 1)

\* row[label] for a label of the index: the cell when the label occurs once,
\* a Series of all the cells under it when it occurs several times
row_getitem(row, label) ==
    LET cells == cells_at(row, label, Len(row.index))
    IN  IF Len(cells) = 1 THEN cells[1] ELSE Series(cells)

build_row_accessor(row) == accessor_mapping(row.index, Len(row.index))

\* get(colname) of the accessor built for row
get(row, colname) ==
    LET mapping == build_row_accessor(row)
        key == lower(strip(colname))
    IN  IF key \in DOMAIN mapping THEN row_getitem(row, mapping[key]) ELSE None

\* ------------------------------------------------------------ label selector

\* pd.notna(v) and str(v).strip() != ""
is_usable(v) == notna(v) /\ strip(pystr(v)) # <<>>

\* str(v) returned as it is
label_of_untrimmed(v) == pystr(v)

\* str(v).strip(), the label returned
label_of(v) == strip(pystr(v))

\* The nested loops of get_best_tax_label from alias a of rank r on: the
\* first usable cell ("hit"), a Series met on the way ("raise": the truth
\* value of pd.notna(Series) is ambiguous, a ValueError), or neither
RECURSIVE scan(_, _, _)
scan(row, r, a) ==
    IF r > Len(RANK_PRIORITY)
    THEN [kind |-> "exhausted"]
    ELSE LET candidates == aliases_get(RANK_PRIORITY[r])
         IN  IF a > Len(candidates)
             THEN scan(row, r + 1, 1)
             ELSE LET v == get(row, candidates[a])
                  IN  IF v.kind = "none"
                      THEN scan(row, r, a + 1)
                      ELSE IF v.kind = "series"
                      THEN [kind |-> "raise", rank |-> RANK_PRIORITY[r],
                            candidate |-> candidates[a]]
                      ELSE IF is_usable(v)
                      THEN [kind |-> "hit", rank |-> RANK_PRIORITY[r],
                            candidate |-> candidates[a],
                            value |-> label_of(v)]
                      ELSE scan(row, r, a + 1)

\* get_best_tax_label(row): the str it returns, or the exception
get_best_tax_label(row) ==
    LET h == scan(row, 1, 1)
    IN  CASE h.kind = "hit" -> [kind |-> "return", value |-> h.value]
          [] h.kind = "exhausted" -> [kind |-> "return", value |-> UNKNOWN]
          [] h.kind = "raise" -> [kind |-> "raise"]

\* ------------------------------------------------------------ state

VARIABLES
    pc,              \* position in main, or in the call of SpecLabel
    row,             \* SpecLabel: the row handed to the resolver and selector
    colname,         \* SpecLabel: the name asked of get
    got,             \* SpecLabel: what get returned
    best,            \* SpecLabel: outcome of get_best_tax_label(row)
    df,              \* sample table: [columns, rows]
    original_headers,
    taxonomy_df,     \* taxonomy table: [columns, index, rows]
    tax_id_col,
    tax_id_to_label, \* None until main binds the dict
    it,              \* next position of the loop in progress
    new_headers,
    output,          \* the table written to output_path, None before
    stderr           \* TRUE once the warning was printed

vars ==
    <<pc, row, colname, got, best, df, original_headers, taxonomy_df,
      tax_id_col, tax_id_to_label, it, new_headers, output, stderr>>

labelVars == <<row, colname, got, best>>

mainVars ==
    <<df, original_headers, taxonomy_df, tax_id_col, tax_id_to_label, it,
      new_headers, output, stderr>>

\* ------------------------------------------------------------ inputs

\* cells of a taxonomy table read with dtype=str: NaN for an empty field,
\* otherwise the text as written (never trimmed)
RankCells == {NaN, Str(<<" ">>), Str(<<" ","H","s"," ">>), Str(<<"U","n","k","n","o","w","n">>)}

\* column labels a row may carry
RowLabels ==
    {<<"s","p","e","c","i","e","s">>, <<"S","p","e","c","i","e","s">>, <<" ","s","p","e","c","i","e","s">>, <<"s","u","b","s","p","e","c","i","e","s">>, <<"o","r","g","a","n","i","s","m","_","n","a","m","e">>,
     <<"g","e","n","u","s">>, <<"k","i","n","g","d","o","m">>, <<"d","o","m","a","i","n">>, <<"s","u","p","e","r","k","i","n","g","d","o","m">>}

\* names asked of the resolver
AskedNames == {<<"s","p","e","c","i","e","s">>, <<" ","S","P","E","C","I","E","S"," ">>, <<"f","a","m","i","l","y">>}

SeqsUpTo(S, n) == UNION {[1..k -> S] : k \in 0..n}

Rows ==
    {[index |-> idx, values |-> vals] :
        <<idx, vals>> \in
            {p \in SeqsUpTo(RowLabels, MaxRowCols) \X SeqsUpTo(RankCells, MaxRowCols) :
                Len(p[1]) = Len(p[2])}}

NoTable == [columns |-> <<>>, rows |-> <<>>]

\* ------------------------------------------------------------ SpecLabel

InitLabel ==
    /\ pc = "call"
    /\ row \in Rows
    /\ colname = <<>>
    /\ got = None
    /\ best = None
    /\ df = NoTable
    /\ original_headers = <<>>
    /\ taxonomy_df = NoTable
    /\ tax_id_col = None
    /\ tax_id_to_label = None
    /\ it = 0
    /\ new_headers = <<>>
    /\ output = None
    /\ stderr = FALSE

\* get = build_row_accessor(row); get(name)
Resolve ==
    /\ pc = "call"
    /\ \E name \in AskedNames :
        /\ colname' = name
        /\ got' = get(row, name)
    /\ pc' = "resolved"
    /\ UNCHANGED <<row, best>>
    /\ UNCHANGED mainVars

\* get_best_tax_label(row)
SelectLabel ==
    /\ pc = "call"
    /\ best' = get_best_tax_label(row)
    /\ pc' = "selected"
    /\ UNCHANGED <<row, colname, got>>
    /\ UNCHANGED mainVars

NextLabel == Resolve \/ SelectLabel

SpecLabel == InitLabel /\ [][NextLabel]_vars

\* ------------------------------------------------------------ main: helpers

\* the spellings find_tax_id_col accepts
TAX_ID_KEYS == {<<"t","a","x","_","i","d">>, <<"t","a","x","i","d">>, <<"t","a","x"," ","i","d">>, <<"t","a","x","-","i","d">>}

\* the same search with the substring heuristic tried on every column
find_tax_id_col_any_column(columns) ==
    LET candidates == SelectSeq(columns, LAMBDA c : lower(strip(c)) \in TAX_ID_KEYS)
        alike == SelectSeq(columns, LAMBDA c : contains(<<"t","a","x">>, lower(strip(c)))
                                               /\ contains(<<"i","d">>, lower(strip(c))))
    IN  IF candidates # <<>>
        THEN Str(candidates[1])
        ELSE IF alike # <<>> THEN Str(alike[1]) ELSE None

\* find_tax_id_col(taxonomy_df): a column label, or None
find_tax_id_col(columns) ==
    LET candidates == SelectSeq(columns, LAMBDA c : lower(strip(c)) \in TAX_ID_KEYS)
    IN  IF candidates # <<>>
        THEN Str(candidates[1])
        ELSE IF Len(columns) >= 1
                /\ contains(<<"t","a","x">>, lower(strip(columns[1])))
                /\ contains(<<"i","d">>, lower(strip(columns[1])))
             THEN Str(columns[1])
             ELSE None

\* normalize_cols(df): every column label stripped
normalize_cols(t) ==
    [t EXCEPT !.columns = [i \in 1..Len(t.columns) |-> strip(t.columns[i])]]

\* s with position p removed
drop_at(s, p) == SubSeq(s, 1, p - 1) \o SubSeq(s, p + 1, Len(s))

positions(columns, label) == {p \in 1..Len(columns) : columns[p] = label}

\* taxonomy_df.set_index(label, drop=True) when label names one column
set_index(t, label) ==
    LET p == CHOOSE q \in positions(t.columns, label) : TRUE
    IN  [columns |-> drop_at(t.columns, p),
         index |-> [r \in 1..Len(t.rows) |-> t.rows[r][p]],
         rows |-> [r \in 1..Len(t.rows) |-> drop_at(t.rows[r], p)]]

\* the (tax_id, row) pair iterrows yields at position r
iter_tax_id(t, r) == t.index[r]

iter_row(t, r) == [index |-> t.columns, values |-> t.rows[r]]

\* str(tax_id) without the strip
normalize_tid_unstripped(tax_id) == pystr(tax_id)

\* tid = str(tax_id).strip()
normalize_tid(tax_id) == strip(pystr(tax_id))

\* an insertion that keeps the value already stored under k
dict_setdefault(d, k, v) == d @@ (k :> v)

\* d[k] = v
dict_setitem(d, k, v) == (k :> v) @@ d

\* the same choice without the isdigit test
translate_header_any_key(col, d) ==
    LET c == strip(col)
    IN  IF c \in DOMAIN d THEN d[c] ELSE col

\* one pass of the header loop body: the token appended for col
translate_header(col, d) ==
    LET c == strip(col)
    IN  IF isdigit(c) /\ c \in DOMAIN d THEN d[c] ELSE col

Dict(d) == [kind |-> "dict", d |-> d]

\* ------------------------------------------------------------ main: inputs

\* header tokens of the sample table; read_csv makes them pairwise distinct
SampleTokens == {<<"1">>, <<" ","2"," ">>, <<"x">>, <<"n","a","n">>}

Injective(s) == \A i, j \in 1..Len(s) : s[i] = s[j] => i = j

\* the sample table as read: 1..MaxHeaders columns and one data row
SampleTables ==
    {[columns |-> h, rows |-> <<[j \in 1..Len(h) |-> Str(<<"0",".","5">>)]>>] :
        h \in {s \in SeqsUpTo(SampleTokens, MaxHeaders) : Len(s) >= 1 /\ Injective(s)}}

\* the header of the table whose rows vary most
MainHeader == <<<<"t","a","x","_","i","d">>, <<"s","p","e","c","i","e","s">>>>

\* other headers: the identifier column's spellings and positions, the
\* first-column heuristic, no identifier column, labels equal after strip
OtherHeaders ==
    {<<<<"s","p","e","c","i","e","s">>, <<" ","T","a","x"," ","I","D">>>>,
     <<<<"t","a","x","o","n","_","i","d">>, <<"n","a","m","e">>>>,
     <<<<"n","a","m","e">>, <<"t","a","x","o","n","_","i","d">>>>,
     <<<<"i","d">>, <<"g","e","n","u","s">>>>,
     <<<<"T","a","x","I","D">>, <<"t","a","x","-","i","d">>>>,
     <<<<"t","a","x","o","n","_","i","d">>, <<"t","a","x","i","d">>>>,
     <<<<"t","a","x","_","i","d">>, <<" ","t","a","x","_","i","d">>>>,
     <<<<"t","a","x","_","i","d">>, <<"s","p","e","c","i","e","s">>, <<" ","s","p","e","c","i","e","s">>>>,
     <<<<"t","a","x","_","i","d">>, <<"s","p","e","c","i","e","s">>, <<"S","p","e","c","i","e","s">>>>}

IdCells == {NaN, Str(<<" ">>), Str(<<"1">>), Str(<<" ","2"," ">>)}

LabelCells == {Str(<<" ","H","s"," ">>), Str(<<" ","1"," ">>)}

looks_like_id(label) == contains(<<"t","a","x">>, lower(strip(label)))

\* rows under MainHeader
MainRows == {<<i, v>> : i \in IdCells, v \in LabelCells}

\* rows under another header: an identifier under the tax columns, a name
\* or nothing under the others
OtherRows(h) ==
    {r \in [1..Len(h) -> {NaN, Str(<<"1">>), Str(<<" ","H","s"," ">>)}] :
        \A p \in 1..Len(h) :
            IF looks_like_id(h[p]) THEN r[p] = Str(<<"1">>) ELSE r[p] # Str(<<"1">>)}

\* the taxonomy table as read by read_csv (labels not yet stripped)
TaxTables ==
    {[columns |-> MainHeader, index |-> <<>>, rows |-> rs] :
        rs \in SeqsUpTo(MainRows, MaxTaxRows)}
    \cup
    UNION {{[columns |-> h, index |-> <<>>, rows |-> rs] :
                rs \in SeqsUpTo(OtherRows(h), MaxTaxRows - 1)} : h \in OtherHeaders}

\* ------------------------------------------------------------ main

\* after both read_csv calls
Init ==
    /\ pc = "read"
    /\ df \in SampleTables
    /\ original_headers = df.columns
    /\ taxonomy_df \in TaxTables
    /\ tax_id_col = None
    /\ tax_id_to_label = None
    /\ it = 0
    /\ new_headers = <<>>
    /\ output = None
    /\ stderr = FALSE
    /\ row = [index |-> <<>>, values |-> <<>>]
    /\ colname = <<>>
    /\ got = None
    /\ best = None

NormalizeCols ==
    /\ pc = "read"
    /\ taxonomy_df' = normalize_cols(taxonomy_df)
    /\ pc' = "normalized"
    /\ UNCHANGED <<df, original_headers, tax_id_col, tax_id_to_label, it,
                   new_headers, output, stderr>>
    /\ UNCHANGED labelVars

FindTaxIdCol ==
    /\ pc = "normalized"
    /\ tax_id_col' = find_tax_id_col(taxonomy_df.columns)
    /\ pc' = "found"
    /\ UNCHANGED <<df, original_headers, taxonomy_df, tax_id_to_label, it,
                   new_headers, output, stderr>>
    /\ UNCHANGED labelVars

\* no identifier column: the sample table is written as read, with a warning
Passthrough ==
    /\ pc = "found"
    /\ tax_id_col = None
    /\ output' = df
    /\ stderr' = TRUE
    /\ pc' = "done"
    /\ UNCHANGED <<df, original_headers, taxonomy_df, tax_id_col,
                   tax_id_to_label, it, new_headers>>
    /\ UNCHANGED labelVars

\* set_index, then the empty dict.  pandas builds the index from
\* frame[label]; when several columns carry the label that is a DataFrame
\* and the Index constructor rejects it
SetIndex ==
    /\ pc = "found"
    /\ tax_id_col # None
    /\ \/ /\ Cardinality(positions(taxonomy_df.columns, tax_id_col.s)) > 1
          /\ pc' = "raised"
          /\ UNCHANGED <<taxonomy_df, tax_id_to_label, it>>
       \/ /\ Cardinality(positions(taxonomy_df.columns, tax_id_col.s)) = 1
          /\ taxonomy_df' = set_index(taxonomy_df, tax_id_col.s)
          /\ tax_id_to_label' = Dict(EmptyDict)
          /\ it' = 1
          /\ pc' = "build"
    /\ UNCHANGED <<df, original_headers, tax_id_col, new_headers, output, stderr>>
    /\ UNCHANGED labelVars

\* one pass of the loop over taxonomy_df.iterrows()
BuildRow ==
    /\ pc = "build"
    /\ it <= Len(taxonomy_df.rows)
    /\ LET tid == normalize_tid(iter_tax_id(taxonomy_df, it))
           label == get_best_tax_label(iter_row(taxonomy_df, it))
       IN  \/ /\ tid = <<>>
              /\ it' = it + 1
              /\ UNCHANGED <<pc, tax_id_to_label>>
           \/ /\ tid # <<>>
              /\ label.kind = "raise"
              /\ pc' = "raised"
              /\ UNCHANGED <<it, tax_id_to_label>>
           \/ /\ tid # <<>>
              /\ label.kind = "return"
              /\ tax_id_to_label' = Dict(dict_setitem(tax_id_to_label.d, tid, label.value))
              /\ it' = it + 1
              /\ UNCHANGED pc
    /\ UNCHANGED <<df, original_headers, taxonomy_df, tax_id_col, new_headers,
                   output, stderr>>
    /\ UNCHANGED labelVars

\* the loop is exhausted; new_headers = []
BuildDone ==
    /\ pc = "build"
    /\ it > Len(taxonomy_df.rows)
    /\ new_headers' = <<>>
    /\ it' = 1
    /\ pc' = "headers"
    /\ UNCHANGED <<df, original_headers, taxonomy_df, tax_id_col,
                   tax_id_to_label, output, stderr>>
    /\ UNCHANGED labelVars

\* one pass of the loop over original_headers
TranslateHeader ==
    /\ pc = "headers"
    /\ it <= Len(original_headers)
    /\ new_headers' =
         Append(new_headers, translate_header(original_headers[it], tax_id_to_label.d))
    /\ it' = it + 1
    /\ UNCHANGED <<pc, df, original_headers, taxonomy_df, tax_id_col,
                   tax_id_to_label, output, stderr>>
    /\ UNCHANGED labelVars

\* df.columns = new_headers; df.to_csv(output_path)
WriteOutput ==
    /\ pc = "headers"
    /\ it > Len(original_headers)
    /\ df' = [df EXCEPT !.columns = new_headers]
    /\ output' = df'
    /\ pc' = "done"
    /\ UNCHANGED <<original_headers, taxonomy_df, tax_id_col, tax_id_to_label,
                   it, new_headers, stderr>>
    /\ UNCHANGED labelVars

Next ==
    \/ NormalizeCols
    \/ FindTaxIdCol
    \/ Passthrough
    \/ SetIndex
    \/ BuildRow
    \/ BuildDone
    \/ TranslateHeader
    \/ WriteOutput

Spec == Init /\ [][Next]_vars

\* ------------------------------------------------------------ properties of the resolver and the selector (SpecLabel)

Min(S) == CHOOSE x \in S : \A y \in S : x <= y

Max(S) == CHOOSE x \in S : \A y \in S : x >= y

\* a value that is one present, non-missing cell, non-empty once trimmed
usable_value(v) == v.kind = "str" /\ strip(v.s) # <<>>

\* the resolver yields a usable value for name
Usable(r, name) == usable_value(get(r, name))

SPECIES == ALIASES[<<"s","p","e","c","i","e","s">>]

SUBSPECIES == ALIASES[<<"s","u","b","s","p","e","c","i","e","s">>]

Range(s) == {s[i] : i \in 1..Len(s)}

\* the columns of r whose normalized label is the normalized name
Matching(r, name) ==
    {i \in 1..Len(r.index) : lower(strip(r.index[i])) = lower(strip(name))}

ALL_ALIASES == UNION {Range(aliases_get(RANK_PRIORITY[r])) : r \in 1..Len(RANK_PRIORITY)}

\* the columns the resolver can reach through some alias: those whose label
\* the accessor keeps for a normalized alias name, and every column carrying
\* exactly that label
ReachableColumns(r) ==
    LET mapping == build_row_accessor(r)
        kept == {mapping[lower(strip(a))] :
                    a \in {b \in ALL_ALIASES : lower(strip(b)) \in DOMAIN mapping}}
    IN  {i \in 1..Len(r.index) : r.index[i] \in kept}

unusable_cell(cell) == cell.kind = "nan" \/ strip(cell.s) = <<>>

\* C2 as stated: get_best_tax_label returns "Unknown" exactly when every
\* column reachable through an alias is absent, missing or blank.
C2_UnknownIffNothingUsable ==
    pc = "selected" =>
        ((\A i \in ReachableColumns(row) : unusable_cell(row.values[i]))
            <=> best = [kind |-> "return", value |-> UNKNOWN])

\* C2, amended: when every reachable column is absent, missing or blank,
\* get_best_tax_label returns "Unknown", except that it raises when some
\* alias is the label of several columns of the row; and when it returns
\* "Unknown", either every reachable column is absent, missing or blank, or
\* a reachable cell holds the text "Unknown" itself.
C2_UnknownWhenNothingUsable ==
    pc = "selected" =>
        LET nothing == \A i \in ReachableColumns(row) : unusable_cell(row.values[i])
            repeated == \E i, j \in ReachableColumns(row) :
                            i # j /\ row.index[i] = row.index[j]
        IN  /\ nothing =>
                IF repeated
                THEN best = [kind |-> "raise"]
                ELSE best = [kind |-> "return", value |-> UNKNOWN]
            /\ best = [kind |-> "return", value |-> UNKNOWN] =>
                \/ nothing
                \/ \E i \in ReachableColumns(row) :
                        /\ ~unusable_cell(row.values[i])
                        /\ strip(row.values[i].s) = UNKNOWN

\* C2 witness: a missing cell and a blank cell under two rank columns, and
\* "Unknown" came back
C2_Witness ==
    /\ pc = "selected"
    /\ Cardinality(ReachableColumns(row)) = 2
    /\ \E i, j \in ReachableColumns(row) :
        /\ row.values[i] = NaN
        /\ row.values[j].kind = "str"
        /\ strip(row.values[j].s) = <<>>
    /\ best = [kind |-> "return", value |-> UNKNOWN]

\* C9 as stated: among several columns whose labels differ only by case or
\* surrounding whitespace, get returns the cell of the first one; with no
\* matching column it returns None.
C9_FirstMatch ==
    pc = "resolved" =>
        LET m == Matching(row, colname)
        IN  /\ m = {} => got = None
            /\ (Cardinality(m) >= 2
                /\ \A i, j \in m : row.index[i] = row.index[j] => i = j)
                    => got = row.values[Min(m)]

RankOf(name) == CHOOSE r \in 1..Len(RANK_PRIORITY) : RANK_PRIORITY[r] = name

\* C10 as stated: when the returned value was read through the canonical
\* name of rank R, no more specific rank has under its own canonical name a
\* usable value (here: one that differs from the label returned).
C10_RankSpecificity ==
    pc = "selected" =>
        LET h == scan(row, 1, 1)
        IN  (h.kind = "hit" /\ h.candidate \in Range(RANK_PRIORITY)) =>
                \A r \in 1..(RankOf(h.candidate) - 1) :
                    ~(/\ Usable(row, RANK_PRIORITY[r])
                      /\ strip(get(row, RANK_PRIORITY[r]).s) # h.value)

\* ------------------------------------------------------------ properties of main (Spec)

\* main bound the dict and has not raised since
MapBound == tax_id_to_label # None

\* the build loop ran to its end
MapFinished == MapBound /\ pc \in {"headers", "done"}

\* the normalized identifier of taxonomy row r (after set_index)
TidOf(r) == strip(pystr(taxonomy_df.index[r]))

TaxRowNumbers == 1..Len(taxonomy_df.rows)

\* C3: at every point after the dict is bound, each key is a non-empty
\* trimmed string and its value a non-empty trimmed string, "Unknown" or
\* the trimmed text of a cell of a row carrying that identifier; and when
\* the loop has ended every row's non-empty normalized identifier is a key.
C3_MapTotal ==
    MapBound =>
        /\ \A k \in DOMAIN tax_id_to_label.d :
            LET v == tax_id_to_label.d[k]
            IN  /\ k # <<>>
                /\ strip(k) = k
                /\ v # <<>>
                /\ strip(v) = v
                /\ \/ v = UNKNOWN
                   \/ \E r \in TaxRowNumbers :
                        /\ TidOf(r) = k
                        /\ \E p \in 1..Len(taxonomy_df.columns) :
                            /\ taxonomy_df.rows[r][p].kind = "str"
                            /\ strip(taxonomy_df.rows[r][p].s) = v
        /\ MapFinished =>
            \A r \in TaxRowNumbers :
                TidOf(r) # <<>> => TidOf(r) \in DOMAIN tax_id_to_label.d

\* C3 witness: the loop has ended over a table with a blank identifier and
\* an identifier written with surrounding blanks, which is the only key
C3_Witness ==
    /\ pc = "headers"
    /\ Cardinality(DOMAIN tax_id_to_label.d) = 1
    /\ \E r \in TaxRowNumbers : TidOf(r) = <<>>
    /\ \E r \in TaxRowNumbers :
        /\ TidOf(r) # <<>>
        /\ TidOf(r) # pystr(taxonomy_df.index[r])

\* the token the header loop is claimed to emit for col: the label when col
\* itself is a run of digits and a key, col otherwise
EmitsUntrimmed(col, d) == IF isdigit(col) /\ col \in DOMAIN d THEN d[col] ELSE col

\* the same decided on col trimmed
EmitsTrimmed(col, d) ==
    IF isdigit(strip(col)) /\ strip(col) \in DOMAIN d THEN d[strip(col)] ELSE col

\* the run took the translation path to its end
Translated == pc = "done" /\ MapBound

\* C4 as stated: a token is replaced exactly when it is itself a run of
\* digits and a key of the map; a token with surrounding whitespace is
\* emitted unchanged.
C4_ReplacedIffDigitsAndKey ==
    Translated =>
        /\ Len(output.columns) = Len(original_headers)
        /\ \A j \in 1..Len(original_headers) :
            output.columns[j] = EmitsUntrimmed(original_headers[j], tax_id_to_label.d)

\* C4, amended: a token is replaced by its label exactly when the token
\* with surrounding whitespace removed is a non-empty run of digits and a
\* key of the map (so " 2 " is replaced by the label of "2"); every other
\* token, a numeric one without an entry included, is emitted unchanged; the
\* number and order of the tokens is kept, in the loop and in the output.
C4_ReplacedIffTrimmedDigitsAndKey ==
    /\ pc = "headers" =>
        /\ Len(new_headers) = it - 1
        /\ \A j \in 1..Len(new_headers) :
            new_headers[j] = EmitsTrimmed(original_headers[j], tax_id_to_label.d)
    /\ Translated =>
        /\ Len(output.columns) = Len(original_headers)
        /\ output.rows = df.rows
        /\ \A j \in 1..Len(original_headers) :
            output.columns[j] = EmitsTrimmed(original_headers[j], tax_id_to_label.d)

\* C4 witness: one token with surrounding blanks was replaced, one all-digit
\* token without an entry was kept
C4_Witness ==
    /\ Translated
    /\ \E j \in 1..Len(original_headers) :
        /\ strip(original_headers[j]) # original_headers[j]
        /\ output.columns[j] # original_headers[j]
    /\ \E j \in 1..Len(original_headers) :
        /\ isdigit(original_headers[j])
        /\ original_headers[j] \notin DOMAIN tax_id_to_label.d
        /\ output.columns[j] = original_headers[j]

\* C5 as stated: a second pass of the header loop over the written header,
\* with the same map, changes no token.
C5_Idempotent ==
    Translated =>
        \A j \in 1..Len(output.columns) :
            translate_header(output.columns[j], tax_id_to_label.d) = output.columns[j]

\* no label of the map is a run of digits that is a key with another label
NoLabelIsAKey(d) ==
    \A k \in DOMAIN d : ~(isdigit(d[k]) /\ d[k] \in DOMAIN d /\ d[d[k]] # d[k])

\* C5, amended: a second pass with the same map changes no token, provided
\* no label of the map is itself an all-digit key of the map that carries a
\* different label.
C5_IdempotentUnlessLabelIsAKey ==
    (Translated /\ NoLabelIsAKey(tax_id_to_label.d)) =>
        \A j \in 1..Len(output.columns) :
            translate_header(output.columns[j], tax_id_to_label.d) = output.columns[j]

\* C5 witness: a pass that replaced a token, under a map none of whose
\* labels is such a key
C5_Witness ==
    /\ Translated
    /\ NoLabelIsAKey(tax_id_to_label.d)
    /\ output.columns # original_headers

\* no column bears an accepted spelling and the first one does not contain
\* both "tax" and "id"
NoIdColumn(columns) ==
    /\ \A i \in 1..Len(columns) : lower(strip(columns[i])) \notin TAX_ID_KEYS
    /\ ~(/\ contains(<<"t","a","x">>, lower(strip(columns[1])))
         /\ contains(<<"i","d">>, lower(strip(columns[1]))))

\* C6: find_tax_id_col answers None exactly for a table without identifier
\* column; then no dict is bound, the run ends with the sample table written
\* as read and the warning printed, and never raises; otherwise a column of
\* the table is named, the translation path is taken and no warning printed.
C6_PassthroughIffNoIdColumn ==
    /\ pc = "found" =>
        /\ tax_id_col = None <=> NoIdColumn(taxonomy_df.columns)
        /\ tax_id_col # None => tax_id_col.s \in Range(taxonomy_df.columns)
    /\ (tax_id_col = None /\ pc \notin {"read", "normalized"}) =>
        /\ pc \in {"found", "done"}
        /\ ~MapBound
        /\ pc = "done" =>
            /\ output = df
            /\ output.columns = original_headers
            /\ stderr
    /\ tax_id_col # None =>
        /\ ~stderr
        /\ pc = "done" => MapBound

\* C6 witness: a table whose second column contains "tax" and "id" but
\* bears no accepted spelling ended in the passthrough
C6_Witness ==
    /\ pc = "done"
    /\ tax_id_col = None
    /\ stderr
    /\ \E i \in 2..Len(taxonomy_df.columns) :
        /\ contains(<<"t","a","x">>, lower(taxonomy_df.columns[i]))
        /\ contains(<<"i","d">>, lower(taxonomy_df.columns[i]))

\* C7: in the finished map each key carries the label of the last row, in
\* table order, whose normalized identifier is that key.
C7_LastRowWins ==
    MapFinished =>
        \A k \in DOMAIN tax_id_to_label.d :
            LET last == Max({r \in TaxRowNumbers : TidOf(r) = k})
            IN  tax_id_to_label.d[k] =
                    get_best_tax_label(iter_row(taxonomy_df, last)).value

\* C7 witness: two rows share a normalized identifier and give different
\* labels, and the loop has ended
C7_Witness ==
    /\ pc = "headers"
    /\ \E r1, r2 \in TaxRowNumbers :
        /\ r1 < r2
        /\ TidOf(r1) = TidOf(r2)
        /\ TidOf(r1) # <<>>
        /\ get_best_tax_label(iter_row(taxonomy_df, r1))
            # get_best_tax_label(iter_row(taxonomy_df, r2))

\* an identifier that is missing or blank
BadIdentifier(v) == v.kind = "nan" \/ strip(v.s) = <<>>

\* C8 as stated: a pass of the build loop over a row whose identifier is
\* empty, blank or missing leaves the map as it was and goes on to the next
\* row.
C8_BadIdentifierSkipped ==
    [][(/\ pc = "build"
        /\ it <= Len(taxonomy_df.rows)
        /\ BadIdentifier(taxonomy_df.index[it]))
            => (/\ tax_id_to_label' = tax_id_to_label
                /\ pc' = "build"
                /\ it' = it + 1)]_vars

====
